---- MODULE Spec2Model ----
(***************************************************************************)
(* State-machine model of the rcards viewer: the zustand view-state store  *)
(* (useCardStore), the camera controller (ZoomController, both variants),  *)
(* the booster pack component (BoosterPack inside BoosterScene) and the    *)
(* booster pull (pullBoosterCards / handleOpenBooster in App).             *)
(*                                                                         *)
(* Units: lengths of the camera are in 1/1000 scene units (so 0.8 is 800,  *)
(* 3.5 is 3500), pointer positions are in CSS pixels, frame time is in     *)
(* 1/10 s (so the 1.0 s opening duration is 10).                           *)
(***************************************************************************)
EXTENDS Integers, Sequences, FiniteSets, TLC

VARIABLES
    \* ---- useCardStore (src/src/hooks/useCardStore.ts) ----
    cards,            \* Card[]            : the card pool
    selectedCardId,   \* string | null
    viewMode,         \* 'gallery' | 'inspect' | 'booster'
    boosterState,     \* 'pack' | 'opening' | 'revealing' | 'summary'
    boosterCards,     \* Card[]            : the booster hand
    revealedIndices,  \* Set<number>
    \* ---- ZoomController refs and props ----
    variant,          \* which ZoomController source is mounted: "pan" | "fixed"
    contentHeight,    \* prop contentHeight (pan variant)
    targetZ,          \* targetZ.current
    targetY,          \* targetY.current (pan variant)
    \* ---- BoosterScene / BoosterPack component state ----
    rendered,         \* the boosterState prop of the last committed render
    packMounted,      \* BoosterPack is mounted
    drag,             \* dragRef.current : [active, startY, currentDelta]
    openTimer,        \* anim.current.openTimer
    finishCalled,     \* anim.current.finishCalled
    \* ---- observation of events and callbacks (history, not program state) ----
    gesture,          \* the pointer gesture since the last pointer-down on the pack
    finishCalls,      \* onFinishOpening calls since the pack was mounted
    timeInOpening,    \* frame time accumulated with prop 'opening' since mount
    \* ---- pullBoosterCards ----
    pulled,           \* the last pullBoosterCards call: [pool, hand]
    \* ---- BoosterCard click (history) ----
    click,            \* the last click on a booster card and what it called
    \* ---- one smoothed scalar of a frame callback ----
    smooth,           \* [cur, tgt, rate, prev, t, steps]
    \* ---- one artwork / back / pack texture hook ----
    tex,              \* [kind, mounted, texture, loads, effects, lateSets, errors]
    \* ---- App local state ----
    flipped,          \* useState(false) of App
    \* ---- InspectScene ----
    ins,              \* drag.current : [isDragging, prevX, prevY, velocityX, ...]
    insObs,           \* wall clock and history of the inspect controller
    \* ---- BoosterCard entrance ----
    entry,            \* the anim refs and entrance timers of the booster cards
    \* ---- CardMesh hover ----
    hover,            \* [hovered, targetTiltX, targetTiltY, targetLiftY, ...]
    \* ---- gallery layout ----
    layout            \* a card list and the two heights computed for it

storeVars == <<cards, selectedCardId, viewMode, boosterState, boosterCards, revealedIndices>>
camVars   == <<variant, contentHeight, targetZ, targetY>>
packVars  == <<rendered, packMounted, drag, openTimer, finishCalled,
               gesture, finishCalls, timeInOpening>>
vars      == <<cards, selectedCardId, viewMode, boosterState, boosterCards, revealedIndices,
               variant, contentHeight, targetZ, targetY,
               rendered, packMounted, drag, openTimer, finishCalled,
               gesture, finishCalls, timeInOpening, pulled,
               click, smooth, tex,
               flipped, ins, insObs, entry, hover, layout>>
animVars  == <<ins, insObs, entry, hover, layout>>
sceneVars == <<flipped, animVars>>
auxVars   == <<click, smooth, tex, sceneVars>>

(***************************************************************************)
(* Bounds of the model                                                     *)
(***************************************************************************)
\* number of distinct cards in the catalogue
NumCards == 2
\* longest hand startBooster is called with in the store specification
MaxHand == 5
\* revealCard is called with the indices 0..MaxIndex (MaxIndex >= MaxHand
\* gives one index that is not a slot of any hand)
MaxIndex == 5

CardIds == 1..NumCards
NULL == 0

ViewModes == {"gallery", "inspect", "booster"}
BoosterStates == {"pack", "opening", "revealing", "summary"}

\* the hand of n cards that starts at card c and runs through the catalogue
HandOf(n, c) == [i \in 1..n |-> ((i + c - 2) % NumCards) + 1]

\* the hands startBooster is called with: every length 0..MaxHand
Hands == {HandOf(n, c) : n \in 0..MaxHand, c \in CardIds}
Indices == 0..MaxIndex

(***************************************************************************)
(* useCardStore: initial state and actions                                 *)
(***************************************************************************)
StoreInit ==
    /\ cards = <<>>
    /\ selectedCardId = NULL
    /\ viewMode = "gallery"
    /\ boosterState = "pack"
    /\ boosterCards = <<>>
    /\ revealedIndices = {}

setCards(cs) ==
    /\ cards' = cs
    /\ UNCHANGED <<selectedCardId, viewMode, boosterState, boosterCards, revealedIndices>>

\* selectCard that forgets to switch the view mode
selectCardKeepsMode(id) ==
    /\ selectedCardId' = id
    /\ UNCHANGED <<cards, viewMode, boosterState, boosterCards, revealedIndices>>

selectCard(id) ==
    /\ selectedCardId' = id
    /\ viewMode' = "inspect"
    /\ UNCHANGED <<cards, boosterState, boosterCards, revealedIndices>>

\* deselectCard that leaves the selection in place
deselectCardKeepsId ==
    /\ viewMode' = "gallery"
    /\ UNCHANGED <<cards, selectedCardId, boosterState, boosterCards, revealedIndices>>

deselectCard ==
    /\ selectedCardId' = NULL
    /\ viewMode' = "gallery"
    /\ UNCHANGED <<cards, boosterState, boosterCards, revealedIndices>>

setViewMode(mode) ==
    /\ viewMode' = mode
    /\ UNCHANGED <<cards, selectedCardId, boosterState, boosterCards, revealedIndices>>

startBooster(pulledCards) ==
    /\ viewMode' = "booster"
    /\ boosterState' = "pack"
    /\ boosterCards' = pulledCards
    /\ revealedIndices' = {}
    /\ UNCHANGED <<cards, selectedCardId>>

tearOpen ==
    /\ boosterState' = "opening"
    /\ UNCHANGED <<cards, selectedCardId, viewMode, boosterCards, revealedIndices>>

finishOpening ==
    /\ boosterState' = "revealing"
    /\ UNCHANGED <<cards, selectedCardId, viewMode, boosterCards, revealedIndices>>

\* revealPhase comparing one short of the hand length
revealPhaseOffByOne(next, hand) ==
    IF Cardinality(next) = Len(hand) - 1 THEN "summary" ELSE "revealing"

\* the phase revealCard computes from the new revealed set and the hand
revealPhase(next, hand) ==
    IF Cardinality(next) = Len(hand) THEN "summary" ELSE "revealing"

\* revealCard that starts from an empty set instead of a copy
revealCardForgets(index) ==
    LET next == {index}
    IN  /\ revealedIndices' = next
        /\ boosterState' = revealPhase(next, boosterCards)
        /\ UNCHANGED <<cards, selectedCardId, viewMode, boosterCards>>

revealCard(index) ==
    LET next == revealedIndices \cup {index}
    IN  /\ revealedIndices' = next
        /\ boosterState' = revealPhase(next, boosterCards)
        /\ UNCHANGED <<cards, selectedCardId, viewMode, boosterCards>>

\* the revealed set and phase one revealCard(index) call leaves, starting
\* from the revealed set and phase st (the hand is not touched by reveals)
revealCardOn(st, index) ==
    LET next == st.revealedIndices \cup {index}
    IN  [revealedIndices |-> next, boosterState |-> revealPhase(next, boosterCards)]

\* hand.forEach((_, i) => revealCard(i)) from slot i on: the calls run one
\* after the other inside one event handler
RECURSIVE forEachReveal(_, _, _)
forEachReveal(i, hand, st) ==
    IF i >= Len(hand) THEN st ELSE forEachReveal(i + 1, hand, revealCardOn(st, i))

\* closeBooster that keeps the revealed set
closeBoosterKeepsRevealed ==
    /\ viewMode' = "gallery"
    /\ boosterState' = "pack"
    /\ boosterCards' = <<>>
    /\ UNCHANGED <<cards, selectedCardId, revealedIndices>>

closeBooster ==
    /\ viewMode' = "gallery"
    /\ boosterState' = "pack"
    /\ boosterCards' = <<>>
    /\ revealedIndices' = {}
    /\ UNCHANGED <<cards, selectedCardId>>

(***************************************************************************)
(* ZoomController: the pan variant (wheel pans the gallery) and the        *)
(* fixed variant (wheel zooms in every mode)                               *)
(***************************************************************************)
ZOOM_SPEED == 800
\* SCROLL_SPEED is 0.008 scene units per pixel of deltaY
SCROLL_SPEED == 8

\* Min/max camera Z per view mode, pan variant
ZOOM_LIMITS(mode) ==
    CASE mode = "gallery" -> [min |-> 10000, max |-> 10000]
      [] mode = "inspect" -> [min |-> 3000, max |-> 8000]
      [] mode = "booster" -> [min |-> 8000, max |-> 18000]

\* Min/max camera Z per view mode, fixed variant
ZOOM_LIMITS_FIXED(mode) ==
    CASE mode = "gallery" -> [min |-> 5000, max |-> 20000]
      [] mode = "inspect" -> [min |-> 3000, max |-> 8000]
      [] mode = "booster" -> [min |-> 8000, max |-> 18000]

Max(a, b) == IF a >= b THEN a ELSE b
Min(a, b) == IF a <= b THEN a ELSE b
Abs(x) == IF x >= 0 THEN x ELSE -x

\* clamp(value, min, max) of utils/mathUtils
clamp(value, lo, hi) == Min(Max(value, lo), hi)

\* the depth both variants reset targetZ to when the view mode changes
resetDepth(mode) ==
    IF mode = "inspect" THEN 6000 ELSE IF mode = "booster" THEN 12000 ELSE 10000

\* App.galleryContentHeight for a layout of `groups` rarity groups and
\* `totalRows` card rows: (totalRows + separatorSpace) * SPACING_Y with
\* separatorSpace = max(0, groups-1) * (0.42/4.0) + groups * 0.25
contentHeightOf(groups, totalRows) ==
    (totalRows * 1000 + Max(0, groups - 1) * 105 + groups * 250) * 4

\* the reset effect that leaves the pan target where the last scroll put it
resetEffectPanKeepsPan(mode, height) ==
    /\ targetZ' = resetDepth(mode)
    /\ targetY' = targetY

\* the reset effect of the pan variant, deps [viewMode, camera, contentHeight]
resetEffectPan(mode, height) ==
    /\ targetZ' = resetDepth(mode)
    /\ targetY' = IF mode = "gallery" /\ height > 0 THEN (height \div 2) - 2000 ELSE 0

\* the reset effect of the fixed variant, deps [viewMode]
resetEffectFixed(mode) ==
    /\ targetZ' = resetDepth(mode)
    /\ targetY' = targetY

\* handleWheel of the pan variant
handleWheelPan(deltaY) ==
    IF viewMode = "gallery"
    THEN LET maxScrollDown == Max(0, contentHeight \div 2)
             maxScrollUp == IF contentHeight > 0 THEN (contentHeight \div 2) - 3500 ELSE 0
         IN  /\ targetY' = clamp(targetY - deltaY * SCROLL_SPEED, -maxScrollDown, maxScrollUp)
             /\ targetZ' = targetZ
    ELSE LET delta == IF deltaY > 0 THEN ZOOM_SPEED ELSE -ZOOM_SPEED
             limits == ZOOM_LIMITS(viewMode)
         IN  /\ targetZ' = clamp(targetZ + delta, limits.min, limits.max)
             /\ targetY' = targetY

\* handleWheel of the fixed variant
handleWheelFixed(deltaY) ==
    LET delta == IF deltaY > 0 THEN ZOOM_SPEED ELSE -ZOOM_SPEED
        limits == ZOOM_LIMITS_FIXED(viewMode)
    IN  /\ targetZ' = clamp(targetZ + delta, limits.min, limits.max)
        /\ targetY' = targetY

(***************************************************************************)
(* Initial values of the parts a specification does not exercise           *)
(***************************************************************************)
CamIdle ==
    /\ variant = "pan"
    /\ contentHeight = 0
    /\ targetZ = 10000
    /\ targetY = 0

\* gesture history: held = the pointer is down; armed = the last pointer-down
\* hit the pack while it was rendered in phase 'pack'; downY = where it went
\* down; crossed = since then, with the pointer still down, a pointer-move was
\* more than the threshold above downY; tearCalls = onTearOpen calls since
\* then; lateMove = after the pointer went up again, a pointer-move was more
\* than the threshold above downY
NoGesture == [held |-> FALSE, armed |-> FALSE, downY |-> 0, crossed |-> FALSE, tearCalls |-> 0,
              lateMove |-> FALSE]

PackIdle ==
    /\ rendered = [viewMode |-> "gallery", boosterState |-> "pack",
                   boosterCards |-> <<>>, revealedIndices |-> {}]
    /\ packMounted = FALSE
    /\ drag = [active |-> FALSE, startY |-> 0, currentDelta |-> 0]
    /\ openTimer = 0
    /\ finishCalled = FALSE
    /\ gesture = NoGesture
    /\ finishCalls = 0
    /\ timeInOpening = 0

PullIdle == pulled = [pool |-> <<>>, hand |-> <<>>]

\* reveal history of the mounted booster cards: index = the card clicked last
\* (-1: none yet), wasRevealed = the store had it revealed at that click,
\* calls = the revealCard calls that click made, storeChanged = that click
\* changed the store, revealAllFrom = the number of revealed slots when
\* "Tout reveler" was clicked last (-1: not clicked)
NoClick == [index |-> -1, wasRevealed |-> FALSE, calls |-> <<>>, storeChanged |-> FALSE,
            revealAllFrom |-> -1]

\* a scalar at rest on its target: cur = the animated value, tgt = its
\* target, rate = the smoothing rate of its frame callback; history: prev = the
\* value before the last frame, t = rate * delta of the last frame (0 after a
\* change of target), steps = frames so far
SmoothIdle == [cur |-> 0, tgt |-> 0, rate |-> 8, prev |-> 0, t |-> 0, steps |-> 0]

\* a texture hook before its component mounts: kind = which hook it is,
\* texture = the texture state (0: the placeholder, k: the texture of load k),
\* loads = the loads started so far, each [status, cancelled, late] with
\* cancelled the flag of the effect closure that started it; history:
\* late = the load completed after the unmount, effects = effect runs,
\* lateSets = setTexture calls made after the unmount, errors = errors raised
TexIdle == [kind |-> "pack", mounted |-> FALSE, texture |-> 0, loads |-> <<>>,
            effects |-> 0, lateSets |-> 0, errors |-> 0]

\* InspectScene's drag ref as useRef creates it (angles and velocities in
\* micro-radians, pointer positions in 1/125 px, times in sixths of a second)
InsIdle == [isDragging |-> FALSE, prevX |-> 0, prevY |-> 0,
            velocityX |-> 0, velocityY |-> 0,
            rotX |-> 0, rotY |-> 0, targetRotX |-> 0, targetRotY |-> 0,
            flipY |-> 0, targetFlipY |-> 0, lastInteraction |-> 0]

\* the wall clock and the history of the inspect controller: now = Date.now()
\* (ms since the scene mounted), last = the last event, events = pointer events
\* so far, swayed = the last frame took the idle branch, idleTime = the idle
\* time that frame computed, sinceRelease = frames since the last pointer-up
\* (-1: none yet), releaseVX / releaseVY = the velocities at that pointer-up,
\* heldFrame = a frame ran during the drag that pointer-up ended
InsObsIdle == [now |-> 0, last |-> "mount", events |-> 0, swayed |-> FALSE, idleTime |-> 0,
               sinceRelease |-> -1, releaseVX |-> 0, releaseVY |-> 0, heldFrame |-> FALSE]

\* anim = useRef({...}) of CardMesh with hovered = useState(false); last is
\* the last event, events / frames count them
HoverIdle(inspectMode) ==
    [inspectMode |-> inspectMode, hovered |-> FALSE,
     tiltX |-> 0, tiltY |-> 0, targetTiltX |-> 0, targetTiltY |-> 0,
     liftY |-> 0, targetLiftY |-> 0,
     last |-> "mount", events |-> 0, frames |-> 0]

\* no card list has reached the gallery
NoLayout == [cards |-> <<>>, computed |-> FALSE, galleryContentHeight |-> 0, totalHeight |-> 0]

\* no booster card is mounted
NoEntry == [t |-> 0, cards |-> <<>>]

SceneIdle ==
    /\ flipped = FALSE
    /\ ins = InsIdle
    /\ insObs = InsObsIdle
    /\ entry = NoEntry
    /\ hover = HoverIdle(FALSE)
    /\ layout = NoLayout

AuxIdle == click = NoClick /\ smooth = SmoothIdle /\ tex = TexIdle /\ SceneIdle

(***************************************************************************)
(* App: pullBoosterCards and handleOpenBooster                             *)
(***************************************************************************)
\* the number of cards pullBoosterCards pushes
PULL_COUNT == 5

\* the values of Math.floor(Math.random() * pool.length) over the loop
Picks(pool) == IF Len(pool) = 0 THEN {<<>>} ELSE [1..PULL_COUNT -> 0..(Len(pool) - 1)]

\* pullBoosterCards whose loop stops one iteration early
pullBoosterCardsShort(pool, picks) ==
    IF Len(pool) = 0 THEN <<>>
    ELSE [i \in 1..(PULL_COUNT - 1) |-> pool[picks[i] + 1]]

\* pullBoosterCards(pool) with the random indices picks[1..5]
pullBoosterCards(pool, picks) ==
    IF Len(pool) = 0 THEN <<>>
    ELSE [i \in 1..PULL_COUNT |-> pool[picks[i] + 1]]

\* App.handleSelectCard, the onSelectCard of GalleryScene
handleSelectCard(id) ==
    /\ flipped' = FALSE
    /\ selectCard(id)

\* App.handleBack, the Back button of the inspect overlay
handleBack ==
    /\ flipped' = FALSE
    /\ deselectCard

\* App.handleFlip, the Flip button and the double click of InspectScene
handleFlip == flipped' = ~flipped

\* the card the inspect scene and overlay show: cards.find(c => c.id === selectedCardId)
selectedCard == \E i \in 1..Len(cards) : cards[i] = selectedCardId

handleOpenBooster ==
    \E picks \in Picks(cards) :
        LET hand == pullBoosterCards(cards, picks)
        IN  /\ pulled' = [pool |-> cards, hand |-> hand]
            /\ startBooster(hand)

\* handleRevealAll that starts at the second slot
handleRevealAllSkipsFirst ==
    LET end == forEachReveal(1, boosterCards,
                   [revealedIndices |-> revealedIndices, boosterState |-> boosterState])
    IN  /\ revealedIndices' = end.revealedIndices
        /\ boosterState' = end.boosterState
        /\ UNCHANGED <<cards, selectedCardId, viewMode, boosterCards>>

\* App.handleRevealAll: boosterCards.forEach((_, i) => revealCard(i))
handleRevealAll ==
    LET end == forEachReveal(0, boosterCards,
                   [revealedIndices |-> revealedIndices, boosterState |-> boosterState])
    IN  /\ revealedIndices' = end.revealedIndices
        /\ boosterState' = end.boosterState
        /\ UNCHANGED <<cards, selectedCardId, viewMode, boosterCards>>

(***************************************************************************)
(* BoosterScene / BoosterPack: render, pointer handlers, frame callback    *)
(***************************************************************************)
DRAG_THRESHOLD_PX == 80
\* the opening lasts until openTimer > 1.0 s
OPEN_DURATION == 10

FreshDrag == [active |-> FALSE, startY |-> 0, currentDelta |-> 0]

\* BoosterScene renders BoosterPack in phases 'pack' and 'opening' only
packRendered(mode, phase) == mode = "booster" /\ phase \in {"pack", "opening"}

\* dragProgress as the frame callback derives it, in 1/1000
dragProgress ==
    IF drag.active THEN Min((drag.currentDelta * 1000) \div DRAG_THRESHOLD_PX, 1000) ELSE 0

\* the store values App passes down to BoosterScene as props
Snapshot == [viewMode |-> viewMode, boosterState |-> boosterState,
             boosterCards |-> boosterCards, revealedIndices |-> revealedIndices]

\* the scene commits a render with the props `props`: BoosterPack is mounted
\* (with fresh refs) or unmounted, the booster cards get their props
Commit(props) ==
    /\ rendered' = props
    /\ packMounted' = packRendered(props.viewMode, props.boosterState)
    /\ IF packMounted /\ packMounted'
       THEN UNCHANGED <<drag, openTimer, finishCalled, gesture, finishCalls, timeInOpening>>
       ELSE /\ drag' = FreshDrag
            /\ openTimer' = 0
            /\ finishCalled' = FALSE
            /\ gesture' = NoGesture
            /\ finishCalls' = 0
            /\ timeInOpening' = 0

\* a store update made outside a click (by the window pointermove listener
\* or by the frame callback) reaches the scene in a later task
Render ==
    /\ rendered # Snapshot
    /\ Commit(Snapshot)

\* handleClick without its revealed test
handleClickRevealsAlways(index) == index = index

\* BoosterCard.handleClick of card `index` reaches its onReveal() call
handleClickReveals(index) == index \notin rendered.revealedIndices

\* BoosterCard.handleClick; onReveal is () => onReveal(index), the store's
\* revealCard
handleClick(index) ==
    IF handleClickReveals(index) THEN revealCard(index) ELSE UNCHANGED storeVars

handlePointerDown(y) ==
    IF rendered.boosterState # "pack"
    THEN drag' = drag
    ELSE drag' = [active |-> TRUE, startY |-> y, currentDelta |-> 0]

\* onMove reaches its onTearOpen() call for a pointer at clientY = y
onMoveTears(y) == drag.active /\ drag.startY - y > DRAG_THRESHOLD_PX

\* onMove that leaves the drag armed after firing
onMoveStaysArmed(y) ==
    IF ~drag.active
    THEN /\ drag' = drag
         /\ UNCHANGED storeVars
    ELSE LET delta == drag.startY - y
         IN  IF delta > DRAG_THRESHOLD_PX
             THEN /\ drag' = [drag EXCEPT !.currentDelta = 0]
                  /\ tearOpen
             ELSE /\ drag' = [drag EXCEPT !.currentDelta = Max(0, delta)]
                  /\ UNCHANGED storeVars

\* the window pointermove listener; onTearOpen is the store's tearOpen
onMove(y) ==
    IF ~drag.active
    THEN /\ drag' = drag
         /\ UNCHANGED storeVars
    ELSE LET delta == drag.startY - y
         IN  IF delta > DRAG_THRESHOLD_PX
             THEN /\ drag' = [drag EXCEPT !.active = FALSE, !.currentDelta = 0]
                  /\ tearOpen
             ELSE /\ drag' = [drag EXCEPT !.currentDelta = Max(0, delta)]
                  /\ UNCHANGED storeVars

\* the window pointerup listener
\* onUp that resets the drag distance but leaves the drag armed
onUpKeepsArmed ==
    IF drag.active
    THEN drag' = [drag EXCEPT !.currentDelta = 0]
    ELSE drag' = drag

\* the window pointerup listener
onUp ==
    IF drag.active
    THEN drag' = [drag EXCEPT !.active = FALSE, !.currentDelta = 0]
    ELSE drag' = drag

\* the frame callback reaches its onFinishOpening() call for a frame of delta
useFrameFinishes(delta) ==
    /\ rendered.boosterState = "opening"
    /\ openTimer + delta > OPEN_DURATION
    /\ ~finishCalled

\* the frame callback that never sets the one-shot flag
useFrameNoFlag(delta) ==
    IF rendered.boosterState = "opening"
    THEN /\ openTimer' = openTimer + delta
         /\ IF openTimer' > OPEN_DURATION /\ ~finishCalled
            THEN /\ finishCalled' = finishCalled
                 /\ finishOpening
            ELSE UNCHANGED <<finishCalled, storeVars>>
    ELSE UNCHANGED <<openTimer, finishCalled, storeVars>>

\* the frame callback of BoosterPack; onFinishOpening is the store's
\* finishOpening.  The smoothed transform scalars (packScale, packY,
\* topGroupY, topGroupRotX, bottomGroupY) feed no condition and are left out.
useFrame(delta) ==
    IF rendered.boosterState = "opening"
    THEN /\ openTimer' = openTimer + delta
         /\ IF openTimer' > OPEN_DURATION /\ ~finishCalled
            THEN /\ finishCalled' = TRUE
                 /\ finishOpening
            ELSE UNCHANGED <<finishCalled, storeVars>>
    ELSE UNCHANGED <<openTimer, finishCalled, storeVars>>

(***************************************************************************)
(* Spec: the store driven through its public actions in any order          *)
(***************************************************************************)
Init == StoreInit /\ CamIdle /\ PackIdle /\ PullIdle /\ AuxIdle

nonStoreVars == <<camVars, packVars, pulled, auxVars>>

StoreSelect == (\E id \in CardIds : selectCard(id)) /\ UNCHANGED nonStoreVars
StoreDeselect == deselectCard /\ UNCHANGED nonStoreVars
StoreSetViewMode == (\E m \in ViewModes : setViewMode(m)) /\ UNCHANGED nonStoreVars
StoreStart == (\E h \in Hands : startBooster(h)) /\ UNCHANGED nonStoreVars
StoreTear == tearOpen /\ UNCHANGED nonStoreVars
StoreFinish == finishOpening /\ UNCHANGED nonStoreVars
StoreReveal == (\E i \in Indices : revealCard(i)) /\ UNCHANGED nonStoreVars
StoreClose == closeBooster /\ UNCHANGED nonStoreVars

Next ==
    \/ StoreSelect
    \/ StoreDeselect
    \/ StoreSetViewMode
    \/ StoreStart
    \/ StoreTear
    \/ StoreFinish
    \/ StoreReveal
    \/ StoreClose

Spec == Init /\ [][Next]_vars

(***************************************************************************)
(* SpecCamera: one ZoomController (either variant) under view-mode         *)
(* switches, content-height changes and wheel events                       *)
(***************************************************************************)
\* largest number of rarity groups (each of one card row) in the gallery
MaxGroups == 2

ContentHeights == {contentHeightOf(g, g) : g \in 0..MaxGroups}
WheelDeltas == {-125, 0, 125}

\* mount: targetZ = useRef(camera.position.z) with the camera at the gallery
\* position [0, 0, 10], then the reset effect runs with no cards loaded yet
CameraInit ==
    /\ StoreInit /\ PackIdle /\ PullIdle /\ AuxIdle
    /\ variant \in {"pan", "fixed"}
    /\ contentHeight = 0
    /\ targetZ = resetDepth("gallery")
    /\ targetY = 0

\* the store changes the view mode; the controller re-renders and its reset
\* effect runs
CamSwitchView ==
    /\ \E m \in ViewModes \ {viewMode} :
          /\ setViewMode(m)
          /\ IF variant = "pan" THEN resetEffectPan(m, contentHeight) ELSE resetEffectFixed(m)
    /\ UNCHANGED <<variant, contentHeight, packVars, pulled, auxVars>>

\* the gallery layout changes (cards loaded, filter changed): the pan variant
\* gets a new contentHeight prop and its reset effect runs again; the fixed
\* variant has no such prop
CamContentHeight ==
    /\ variant = "pan"
    /\ \E h \in ContentHeights \ {contentHeight} :
          /\ contentHeight' = h
          /\ resetEffectPan(viewMode, h)
    /\ UNCHANGED <<storeVars, variant, packVars, pulled, auxVars>>

CamWheel ==
    /\ \E d \in WheelDeltas :
          IF variant = "pan" THEN handleWheelPan(d) ELSE handleWheelFixed(d)
    /\ UNCHANGED <<storeVars, variant, contentHeight, packVars, pulled, auxVars>>

CameraNext ==
    \/ CamSwitchView
    \/ CamContentHeight
    \/ CamWheel

SpecCamera == CameraInit /\ [][CameraNext]_vars

(***************************************************************************)
(* SpecPack: a booster session driven through the UI: the pack is torn by  *)
(* a drag, the opening is timed by frames, cards are revealed by clicks.   *)
(* The DOM overlay follows the store (zustand re-renders App before the    *)
(* next event), so its buttons are guarded by the store values. A store    *)
(* update made inside a click is committed to the scene with the click;    *)
(* one made by the pointermove listener or by a frame is committed later   *)
(* (Render), so the BoosterPack props can lag behind the store.            *)
(***************************************************************************)
\* longest frame time, in 1/10 s
MaxFrameDelta == 4
\* frames stop being generated once openTimer is beyond this, in 1/10 s
MaxOpenTimer == 14

\* cards of the catalogue the static provider delivers (which cards a hand
\* holds plays no part in a session; the pull itself is checked in SpecPull)
MaxCatalogue == 1

PointerYs == {0, 119, 120, 200}
FrameDeltas == 1..MaxFrameDelta
Catalogue == [i \in 1..MaxCatalogue |-> i]

\* useCardData: the static provider resolves and setCards stores the catalogue
PackCardsLoaded ==
    /\ cards = <<>>
    /\ setCards(Catalogue)
    /\ UNCHANGED <<camVars, packVars, pulled, auxVars>>

\* the gallery button without its disabled attribute
PackClickOpenBoosterEnabled ==
    /\ viewMode = "gallery"
    /\ handleOpenBooster
    /\ Commit(Snapshot')
    /\ click' = NoClick
    /\ UNCHANGED <<camVars, smooth, tex, sceneVars>>

\* click on "Ouvrir un booster" (gallery overlay, disabled with no cards)
PackClickOpenBooster ==
    /\ viewMode = "gallery"
    /\ Len(cards) # 0
    /\ handleOpenBooster
    /\ Commit(Snapshot')
    /\ click' = NoClick
    /\ UNCHANGED <<camVars, smooth, tex, sceneVars>>

\* click on "Encore un !" (booster overlay in phase summary)
PackClickEncore ==
    /\ viewMode = "booster"
    /\ boosterState = "summary"
    /\ handleOpenBooster
    /\ Commit(Snapshot')
    /\ click' = NoClick
    /\ UNCHANGED <<camVars, smooth, tex, sceneVars>>

\* click on "Tout reveler" (booster overlay in phase revealing)
PackClickRevealAll ==
    /\ viewMode = "booster"
    /\ boosterState = "revealing"
    /\ handleRevealAll
    /\ Commit(Snapshot')
    /\ click' = [click EXCEPT !.revealAllFrom = Cardinality(revealedIndices)]
    /\ UNCHANGED <<camVars, pulled, smooth, tex, sceneVars>>

\* click on "Retour" (booster overlay in phases revealing and summary)
PackClickRetour ==
    /\ viewMode = "booster"
    /\ boosterState \in {"revealing", "summary"}
    /\ closeBooster
    /\ Commit(Snapshot')
    /\ click' = NoClick
    /\ UNCHANGED <<camVars, pulled, smooth, tex, sceneVars>>

\* click on a mounted booster card; the history keeps which card it was,
\* whether the store had it revealed, the revealCard calls made and whether
\* the store changed
PackClickCard ==
    /\ rendered.viewMode = "booster"
    /\ rendered.boosterState \in {"revealing", "summary"}
    /\ \E i \in 0..(Len(rendered.boosterCards) - 1) :
          /\ handleClick(i)
          /\ click' = [click EXCEPT
                         !.index = i,
                         !.wasRevealed = i \in revealedIndices,
                         !.calls = IF handleClickReveals(i) THEN <<i>> ELSE <<>>,
                         !.storeChanged = storeVars' # storeVars]
    /\ Commit(Snapshot')
    /\ UNCHANGED <<camVars, pulled, smooth, tex, sceneVars>>

\* click on a card of the gallery
PackClickGalleryCard ==
    /\ viewMode = "gallery"
    /\ \E i \in 1..Len(cards) : handleSelectCard(cards[i])
    /\ Commit(Snapshot')
    /\ UNCHANGED <<camVars, pulled, click, smooth, tex, animVars>>

\* click on "Back" (inspect overlay)
PackClickBack ==
    /\ viewMode = "inspect"
    /\ selectedCard
    /\ handleBack
    /\ Commit(Snapshot')
    /\ UNCHANGED <<camVars, pulled, click, smooth, tex, animVars>>

\* click on "Flip" (inspect overlay) or double click on the inspected card
PackClickFlip ==
    /\ viewMode = "inspect"
    /\ selectedCard
    /\ handleFlip
    /\ UNCHANGED <<storeVars, camVars, packVars, pulled, click, smooth, tex, animVars>>

PackRender ==
    /\ Render
    /\ UNCHANGED <<storeVars, camVars, pulled, auxVars>>

\* pointer goes down on one of the pack meshes
PackPointerDown ==
    /\ packMounted
    /\ ~gesture.held
    /\ \E y \in PointerYs :
          /\ handlePointerDown(y)
          /\ gesture' = [held |-> TRUE, armed |-> (rendered.boosterState = "pack"),
                         downY |-> y, crossed |-> FALSE, tearCalls |-> 0,
                         lateMove |-> FALSE]
    /\ UNCHANGED <<storeVars, camVars, pulled, auxVars, rendered, packMounted,
                   openTimer, finishCalled, finishCalls, timeInOpening>>

\* a pointer-move reaches the window listener; the gesture history records
\* whether the held pointer is now more than 80 px above where it went down
\* and counts the onTearOpen call
PackPointerMove ==
    /\ packMounted
    /\ \E y \in PointerYs :
          /\ onMove(y)
          /\ gesture' = [gesture EXCEPT
                           !.crossed = @ \/ (gesture.held /\ gesture.downY - y > 80),
                           !.tearCalls = IF onMoveTears(y) THEN @ + 1 ELSE @,
                           !.lateMove = @ \/ (~gesture.held /\ gesture.downY - y > 80)]
    /\ UNCHANGED <<camVars, pulled, auxVars, rendered, packMounted,
                   openTimer, finishCalled, finishCalls, timeInOpening>>

PackPointerUp ==
    /\ packMounted
    /\ gesture.held
    /\ onUp
    /\ gesture' = [gesture EXCEPT !.held = FALSE]
    /\ UNCHANGED <<storeVars, camVars, pulled, auxVars, rendered, packMounted,
                   openTimer, finishCalled, finishCalls, timeInOpening>>

\* one frame of the render loop; the history adds the frame time spent with
\* the pack rendered in phase 'opening' and counts the onFinishOpening call
PackFrame ==
    /\ packMounted
    /\ openTimer <= MaxOpenTimer
    /\ \E d \in FrameDeltas :
          /\ useFrame(d)
          /\ timeInOpening' = IF rendered.boosterState = "opening"
                               THEN timeInOpening + d ELSE timeInOpening
          /\ finishCalls' = IF useFrameFinishes(d) THEN finishCalls + 1 ELSE finishCalls
    /\ UNCHANGED <<camVars, pulled, auxVars, rendered, packMounted, drag, gesture>>

PackNext ==
    \/ PackCardsLoaded
    \/ PackClickOpenBooster
    \/ PackClickEncore
    \/ PackClickRevealAll
    \/ PackClickRetour
    \/ PackClickCard
    \/ PackClickGalleryCard
    \/ PackClickBack
    \/ PackClickFlip
    \/ PackRender
    \/ PackPointerDown
    \/ PackPointerMove
    \/ PackPointerUp
    \/ PackFrame

SpecPack == Init /\ [][PackNext]_vars

(***************************************************************************)
(* SpecSmooth: one animated scalar of a frame callback (a tilt, lift or     *)
(* flip of CardMesh, the camera depth or pan of ZoomController) smoothed    *)
(* toward its target. Frame time is in 1/16 s here, so the factor           *)
(* rate * delta is in 1/16; values are in units of 1/16^MaxSmoothSteps, so  *)
(* that every interpolation of the bounded run is exact.                    *)
(***************************************************************************)
\* frames of one run
MaxSmoothSteps == 2
\* longest frame time, in 1/16 s (3 makes rate * delta exceed 1)
MaxSmoothDelta == 3
\* values and targets range over -MaxSmoothValue..MaxSmoothValue
MaxSmoothValue == 2

SMOOTH_TICKS == 16
SMOOTH_SPEED == 8
ZOOM_SMOOTH == 6
SmoothScale == SMOOTH_TICKS ^ MaxSmoothSteps
SmoothValues == {k * SmoothScale : k \in (-MaxSmoothValue)..MaxSmoothValue}

\* lerp(current, target, t) of utils/mathUtils, linear interpolation without
\* a clamp on t; t is in 1/16
lerp(current, target, t) == current + ((target - current) * t) \div SMOOTH_TICKS

\* the smoothing step with the factor doubled
smoothStepTwice(current, target, rate, delta) == lerp(current, target, 2 * rate * delta)

\* one smoothed scalar of a frame callback:
\* speed = RATE * delta; a.v = lerp(a.v, a.targetV, speed)
smoothStep(current, target, rate, delta) == lerp(current, target, rate * delta)

SmoothInit ==
    /\ StoreInit /\ CamIdle /\ PackIdle /\ PullIdle
    /\ click = NoClick /\ tex = TexIdle /\ SceneIdle
    /\ \E c \in SmoothValues, g \in SmoothValues, r \in {SMOOTH_SPEED, ZOOM_SMOOTH} :
          smooth = [cur |-> c, tgt |-> g, rate |-> r, prev |-> c, t |-> 0, steps |-> 0]

\* one frame
SmoothFrame ==
    /\ smooth.steps < MaxSmoothSteps
    /\ \E d \in 0..MaxSmoothDelta :
          smooth' = [smooth EXCEPT
                       !.cur = smoothStep(smooth.cur, smooth.tgt, smooth.rate, d),
                       !.prev = smooth.cur,
                       !.t = smooth.rate * d,
                       !.steps = @ + 1]
    /\ UNCHANGED <<storeVars, camVars, packVars, pulled, click, tex, sceneVars>>

\* a pointer or wheel event gives the scalar another target
SmoothRetarget ==
    /\ \E g \in SmoothValues \ {smooth.tgt} :
          smooth' = [smooth EXCEPT !.tgt = g, !.prev = smooth.cur, !.t = 0]
    /\ UNCHANGED <<storeVars, camVars, packVars, pulled, click, tex, sceneVars>>

SmoothNext ==
    \/ SmoothFrame
    \/ SmoothRetarget

SpecSmooth == SmoothInit /\ [][SmoothNext]_vars

(***************************************************************************)
(* SpecTexture: the life of one texture hook (useCardArtworkTexture,       *)
(* useBoosterArtworkTexture, useInspectArtworkTexture, usePackTexture):    *)
(* mount, change of the artwork URL, unmount, and the completions of its   *)
(* loads in any order                                                      *)
(***************************************************************************)
\* loads one hook starts (one at mount, one per change of the URL)
MaxLoads == 3

TexKinds == {"card", "booster", "inspect", "pack"}

\* useCardArtworkTexture wraps the loader in a promise (loadTexture), the
\* other hooks pass their callbacks to textureLoader.load
usesPromise(kind) == kind = "card"

\* usePackTexture has deps []; the artwork hooks depend on card.artworkUrl
hasUrlDep(kind) == kind # "pack"

\* every hook gives the loader, or the promise, a rejection callback
errorHandled(kind) == kind \in TexKinds

\* the effect body: let cancelled = false; start the load
effect(t) ==
    [t EXCEPT !.loads = Append(@, [status |-> "pending", cancelled |-> FALSE, late |-> FALSE])]

\* the cleanup of the last effect run: cancelled = true
cleanup(t) == [t EXCEPT !.loads[Len(t.loads)].cancelled = TRUE]

\* the success callback without the cancelled test
onLoadIgnoresCancel(t, k) == [t EXCEPT !.texture = k]

\* the success callback of load k: if (!cancelled) setTexture(tex)
onLoad(t, k) == IF t.loads[k].cancelled THEN t ELSE [t EXCEPT !.texture = k]

\* a failure callback that installs the failed load's texture
onErrorSetsTexture(t, k) == [t EXCEPT !.texture = k]

\* the failure callback of load k: () => {}
onError(t, k) == t

TextureInit ==
    /\ StoreInit /\ CamIdle /\ PackIdle /\ PullIdle
    /\ click = NoClick /\ smooth = SmoothIdle /\ SceneIdle
    /\ \E kind \in TexKinds : tex = [TexIdle EXCEPT !.kind = kind]

\* the component mounts: useState gives the placeholder, the effect runs
TexMount ==
    /\ ~tex.mounted
    /\ tex.effects = 0
    /\ tex' = [effect([tex EXCEPT !.mounted = TRUE, !.texture = 0]) EXCEPT !.effects = 1]
    /\ UNCHANGED <<storeVars, camVars, packVars, pulled, click, smooth, sceneVars>>

\* card.artworkUrl changes: the cleanup of the last run, then the effect again
TexUrlChange ==
    /\ tex.mounted
    /\ hasUrlDep(tex.kind)
    /\ Len(tex.loads) < MaxLoads
    /\ tex' = [effect(cleanup(tex)) EXCEPT !.effects = @ + 1]
    /\ UNCHANGED <<storeVars, camVars, packVars, pulled, click, smooth, sceneVars>>

\* the component unmounts: the cleanup of the last run
TexUnmount ==
    /\ tex.mounted
    /\ tex' = [cleanup(tex) EXCEPT !.mounted = FALSE]
    /\ UNCHANGED <<storeVars, camVars, packVars, pulled, click, smooth, sceneVars>>

\* loadTexture: the loader settles the promise; the then-callbacks run later
TexSettle ==
    /\ usesPromise(tex.kind)
    /\ \E k \in 1..Len(tex.loads), outcome \in {"fulfilled", "rejected"} :
          /\ tex.loads[k].status = "pending"
          /\ tex' = [tex EXCEPT !.loads[k].status = outcome]
    /\ UNCHANGED <<storeVars, camVars, packVars, pulled, click, smooth, sceneVars>>

\* load k succeeds and its success callback runs; the history counts a
\* texture state changed after the unmount
TexResolve ==
    /\ \E k \in 1..Len(tex.loads) :
          /\ tex.loads[k].status = (IF usesPromise(tex.kind) THEN "fulfilled" ELSE "pending")
          /\ LET done == [tex EXCEPT !.loads[k].status = "resolved",
                                      !.loads[k].late = ~tex.mounted]
                  after == onLoad(done, k)
              IN  tex' = [after EXCEPT !.lateSets =
                            IF ~tex.mounted /\ after.texture # tex.texture THEN @ + 1 ELSE @]
    /\ UNCHANGED <<storeVars, camVars, packVars, pulled, click, smooth, sceneVars>>

\* load k fails and its failure callback runs; the history counts an error
\* nothing handles
TexFail ==
    /\ \E k \in 1..Len(tex.loads) :
          /\ tex.loads[k].status = (IF usesPromise(tex.kind) THEN "rejected" ELSE "pending")
          /\ LET done == [tex EXCEPT !.loads[k].status = "failed",
                                      !.loads[k].late = ~tex.mounted]
                  after == onError(done, k)
              IN  tex' = [after EXCEPT !.errors =
                            IF errorHandled(tex.kind) THEN @ ELSE @ + 1]
    /\ UNCHANGED <<storeVars, camVars, packVars, pulled, click, smooth, sceneVars>>

TextureNext ==
    \/ TexMount
    \/ TexUrlChange
    \/ TexUnmount
    \/ TexSettle
    \/ TexResolve
    \/ TexFail

SpecTexture == TextureInit /\ [][TextureNext]_vars

(***************************************************************************)
(* SpecPull: handleOpenBooster called with any pool in the store           *)
(***************************************************************************)
\* the pools setCards is called with: every list of distinct cards
Pools == {<<>>} \cup {HandOf(n, c) : n \in 1..NumCards, c \in CardIds}

PullSetCards ==
    /\ \E pool \in Pools \ {cards} : setCards(pool)
    /\ UNCHANGED <<camVars, packVars, pulled, auxVars>>

PullOpenBooster ==
    /\ handleOpenBooster
    /\ UNCHANGED <<camVars, packVars, auxVars>>

PullNext ==
    \/ PullSetCards
    \/ PullOpenBooster

SpecPull == Init /\ [][PullNext]_vars

(***************************************************************************)
(* Properties of the store (checked under Spec)                            *)
(***************************************************************************)
PhaseRank(p) ==
    CASE p = "pack" -> 0
      [] p = "opening" -> 1
      [] p = "revealing" -> 2
      [] p = "summary" -> 3

\* the slot indices of the current hand
Slots == 0..(Len(boosterCards) - 1)

\* C1: revealCard(i) called while boosterState is 'pack' or 'opening' leaves
\* boosterState and revealedIndices unchanged, for every index i.
C1_RevealRejectedOutsideRevealPhases ==
    [][\A i \in Indices :
          (boosterState \in {"pack", "opening"} /\ revealCard(i))
              => UNCHANGED <<boosterState, revealedIndices>>]_vars

\* a booster session is under way: startBooster has set a hand and no
\* closeBooster has cleared it
InSession == Len(boosterCards) > 0

\* C2: within a session, tearOpen, finishOpening and revealCard(i) never move
\* boosterState back to an earlier phase of pack -> opening -> revealing ->
\* summary.
C2_PhaseOnlyMovesForward ==
    [][(/\ InSession
        /\ (tearOpen \/ finishOpening \/ \E i \in Indices : revealCard(i)))
          => PhaseRank(boosterState') >= PhaseRank(boosterState)]_vars

\* C3: revealCard(i) for an index i that is already in revealedIndices leaves
\* revealedIndices and boosterState as they were.
C3_RevealIdempotent ==
    [][\A i \in Indices :
          (i \in revealedIndices /\ revealCard(i))
              => UNCHANGED <<revealedIndices, boosterState>>]_vars

\* C4: in phase 'revealing' with only slot indices revealed, revealing an
\* unrevealed slot index gives 'summary' exactly when it was the last
\* unrevealed slot of the hand, and leaves the phase 'revealing' otherwise
\* (so after n-1 distinct reveals the phase is still 'revealing').
C4_LastRevealGivesSummary ==
    [][\A i \in Indices :
          (/\ boosterState = "revealing"
           /\ revealedIndices \subseteq Slots
           /\ i \in Slots \ revealedIndices
           /\ revealCard(i))
              => /\ (revealedIndices \cup {i} = Slots) => boosterState' = "summary"
                 /\ (revealedIndices \cup {i} # Slots) => boosterState' = "revealing"]_vars

\* a hand of five whose slots were all revealed, ending in 'summary'
C4_Witness ==
    /\ Len(boosterCards) = 5
    /\ revealedIndices = Slots
    /\ boosterState = "summary"

\* C8: selectCard(id) sets selectedCardId to id and viewMode to 'inspect'
\* from any state; deselectCard() sets selectedCardId to null and viewMode to
\* 'gallery'.
C8_SelectDeselect ==
    [][/\ \A id \in CardIds :
             selectCard(id) => (selectedCardId' = id /\ viewMode' = "inspect")
       /\ deselectCard => (selectedCardId' = NULL /\ viewMode' = "gallery")]_vars

\* a card selected for inspection while a booster session is in 'summary'
C8_Witness ==
    /\ selectedCardId # NULL
    /\ viewMode = "inspect"
    /\ boosterState = "summary"

\* a store step that resets the booster session
SessionReset == closeBooster \/ \E h \in Hands : startBooster(h)

\* C10: no action other than startBooster and closeBooster removes an index
\* from revealedIndices, and those two leave it empty.
C10_RevealedGrowsMonotonically ==
    [][/\ SessionReset => revealedIndices' = {}
       /\ ~SessionReset => revealedIndices \subseteq revealedIndices']_vars

\* several indices revealed and kept across a later tearOpen
C10_Witness ==
    /\ Cardinality(revealedIndices) >= 2
    /\ boosterState = "opening"

\* C13: closeBooster() in any booster phase leaves viewMode 'gallery',
\* boosterState 'pack', an empty hand and an empty revealed set;
\* startBooster(hand) in any state leaves viewMode 'booster', boosterState
\* 'pack', boosterCards = hand and an empty revealed set.
C13_SessionResetFromAnyState ==
    [][/\ closeBooster =>
            /\ viewMode' = "gallery"
            /\ boosterState' = "pack"
            /\ boosterCards' = <<>>
            /\ revealedIndices' = {}
       /\ \A h \in Hands : startBooster(h) =>
            /\ viewMode' = "booster"
            /\ boosterState' = "pack"
            /\ boosterCards' = h
            /\ revealedIndices' = {}]_vars

\* a fresh session of a full hand, started while a card was selected
C13_Witness ==
    /\ viewMode = "booster"
    /\ boosterState = "pack"
    /\ Len(boosterCards) = MaxHand
    /\ revealedIndices = {}
    /\ selectedCardId # NULL

(***************************************************************************)
(* Properties of the camera controller (checked under SpecCamera)          *)
(***************************************************************************)
\* the zoom windows as the claim gives them
ClaimedWindow(mode) ==
    CASE mode = "gallery" -> <<10000, 10000>>
      [] mode = "inspect" -> <<3000, 8000>>
      [] mode = "booster" -> <<8000, 18000>>

\* C5: in every reachable state the zoom target is inside the window of the
\* active view mode, gallery [10,10], inspect [3,8], booster [8,18].
C5_ZoomTargetInsideWindow ==
    /\ ClaimedWindow(viewMode)[1] <= targetZ
    /\ targetZ <= ClaimedWindow(viewMode)[2]

\* the same statement for the pan variant alone
ZoomTargetInsideWindowPan ==
    variant = "pan" => C5_ZoomTargetInsideWindow

\* the fixed variant keeps the target inside its own table
ZoomTargetInsideWindowFixed ==
    variant = "fixed" =>
        /\ ZOOM_LIMITS_FIXED(viewMode).min <= targetZ
        /\ targetZ <= ZOOM_LIMITS_FIXED(viewMode).max

\* the scrollable range the claims give for a gallery of height h
ScrollRange(h) == IF h > 0 THEN <<-(h \div 2), (h \div 2) - 3500>> ELSE <<0, 0>>

\* C19: in gallery mode the pan target of the pan variant is inside
\* [-contentHeight/2, contentHeight/2 - 3.5] for contentHeight > 0 and is 0
\* otherwise, right after the reset and after every wheel event.
C19_PanTargetInsideScrollRange ==
    (variant = "pan" /\ viewMode = "gallery") =>
        /\ ScrollRange(contentHeight)[1] <= targetY
        /\ targetY <= ScrollRange(contentHeight)[2]

\* what the code keeps: the pan target never leaves the range once a wheel
\* event has clamped it, and is never above the reset value contentHeight/2 - 2
PanTargetNotAboveStart ==
    (variant = "pan" /\ viewMode = "gallery" /\ contentHeight > 0) =>
        /\ -(contentHeight \div 2) <= targetY
        /\ targetY <= (contentHeight \div 2) - 2000

\* a wheel event of the pan variant: the mode and the layout stay
WheelStepPan ==
    /\ variant = "pan"
    /\ viewMode' = viewMode
    /\ contentHeight' = contentHeight
    /\ \E d \in WheelDeltas : handleWheelPan(d)

\* C20: in the pan variant every view-mode switch sets the zoom target to 6
\* (inspect), 12 (booster) or 10 (gallery) and the pan target to
\* contentHeight/2 - 2 (gallery with contentHeight > 0) or 0 (otherwise); a
\* wheel event in gallery leaves the zoom target unchanged; a wheel event in
\* inspect or booster leaves the pan target unchanged.
C20_SwitchResetsCameraTargets ==
    [][/\ (variant = "pan" /\ viewMode' # viewMode) =>
            /\ targetZ' = (CASE viewMode' = "inspect" -> 6000
                              [] viewMode' = "booster" -> 12000
                              [] viewMode' = "gallery" -> 10000)
            /\ targetY' = (IF viewMode' = "gallery" /\ contentHeight > 0
                           THEN (contentHeight \div 2) - 2000 ELSE 0)
       /\ (WheelStepPan /\ viewMode = "gallery") => targetZ' = targetZ
       /\ (WheelStepPan /\ viewMode # "gallery") => targetY' = targetY]_vars

\* back in a loaded gallery at the start position, after a zoom elsewhere
C20_Witness ==
    /\ variant = "pan"
    /\ viewMode = "gallery"
    /\ contentHeight = 10420
    /\ targetY = 3210
    /\ targetZ = 10000

(***************************************************************************)
(* Properties of the booster pack (checked under SpecPack)                 *)
(***************************************************************************)
\* C6: after a pointer-down on the pack in phase 'pack', onTearOpen has been
\* called once as soon as a pointer-move of the held gesture was more than
\* 80 px above the start, not before, and never a second time until the next
\* pointer-down.
C6_TearFiresOncePerGesture ==
    (packMounted /\ gesture.armed) =>
        gesture.tearCalls = (IF gesture.crossed THEN 1 ELSE 0)

\* the tear has fired in a gesture that is still held, the drag is disarmed
\* and the pack is now rendered in phase 'opening', where further
\* pointer-moves of the gesture are delivered
C6_Witness ==
    /\ packMounted
    /\ gesture.armed /\ gesture.held /\ gesture.crossed
    /\ gesture.tearCalls = 1
    /\ ~drag.active
    /\ boosterState = "opening"
    /\ rendered.boosterState = "opening"

\* C7: for a mounted pack, onFinishOpening has been called exactly once when
\* the time accumulated in phase 'opening' exceeds 1.0 s and not at all
\* before, however many frames have run since.
C7_FinishCalledOnce ==
    packMounted =>
        finishCalls = (IF timeInOpening > 10 THEN 1 ELSE 0)

\* frames went on after the finish call while the pack was still rendered in
\* phase 'opening'
C7_Witness ==
    /\ packMounted
    /\ rendered.boosterState = "opening"
    /\ finishCalls = 1
    /\ timeInOpening >= 15

\* C18: when the pointer goes up after a pointer-down on the pack without
\* having been more than 80 px above where it went down, onTearOpen has not
\* been called, the drag is disarmed, the drag progress is 0, and pointer-moves
\* after that, wherever they are, call onTearOpen no more until a new
\* pointer-down.
C18_ReleaseBeforeThresholdDisarms ==
    (gesture.armed /\ ~gesture.held /\ ~gesture.crossed) =>
        /\ gesture.tearCalls = 0
        /\ ~drag.active
        /\ dragProgress = 0

\* after such a release the pointer moved far above the threshold
C18_Witness ==
    /\ packMounted
    /\ gesture.armed
    /\ ~gesture.held
    /\ ~gesture.crossed
    /\ gesture.lateMove
    /\ gesture.tearCalls = 0
    /\ boosterState = "pack"

\* C11: "Tout reveler" clicked in phase 'revealing', with any subset of the
\* hand's slots already revealed, leaves every slot index in revealedIndices
\* and boosterState 'summary'.
C11_RevealAllReachesSummary ==
    [][(handleRevealAll /\ boosterState = "revealing" /\ revealedIndices \subseteq Slots)
          => (revealedIndices' = Slots /\ boosterState' = "summary")]_vars

\* reveal-all was clicked with some but not all slots revealed
C11_Witness ==
    /\ click.revealAllFrom \in 1..4
    /\ boosterState = "summary"
    /\ revealedIndices = Slots
    /\ Len(boosterCards) = 5

\* C12: a click on booster card i calls the reveal callback with index i,
\* once, when i is not in the revealed set; a click on a card whose index is
\* in the revealed set calls nothing and changes no store state.
C12_ClickRevealsOnlyUnrevealed ==
    click.index >= 0 =>
        IF click.wasRevealed
        THEN click.calls = <<>> /\ ~click.storeChanged
        ELSE click.calls = <<click.index>>

\* an already revealed card was clicked while others were still face down
C12_Witness ==
    /\ click.index >= 0
    /\ click.wasRevealed
    /\ click.calls = <<>>
    /\ boosterState = "revealing"
    /\ revealedIndices # {}

\* C14: in every state reached through the UI with viewMode 'booster' the
\* hand has exactly 5 cards.
C14_BoosterHandHasFive ==
    viewMode = "booster" => Len(boosterCards) = 5

\* a session of a pulled hand brought to the summary by a reveal-all
C14_Witness ==
    /\ viewMode = "booster"
    /\ boosterState = "summary"
    /\ Len(boosterCards) = 5
    /\ pulled.hand = boosterCards
    /\ click.revealAllFrom >= 0

(***************************************************************************)
(* Properties of the smoothing step (checked under SpecSmooth)             *)
(***************************************************************************)
\* C15: a smoothing step next = lerp(current, target, rate * delta) with
\* 0 <= rate * delta <= 1 ends no farther from the target than it started
\* and between the old value and the target.
C15_SmoothingNeverOvershoots ==
    (smooth.steps > 0 /\ 0 <= smooth.t /\ smooth.t <= SMOOTH_TICKS) =>
        /\ Abs(smooth.cur - smooth.tgt) <= Abs(smooth.prev - smooth.tgt)
        /\ Min(smooth.prev, smooth.tgt) <= smooth.cur
        /\ smooth.cur <= Max(smooth.prev, smooth.tgt)

\* every interpolation of the run is exact in the chosen units
SmoothStepsAreExact ==
    smooth.steps < MaxSmoothSteps =>
        \A d \in 0..MaxSmoothDelta :
            ((smooth.tgt - smooth.cur) * smooth.rate * d) % SMOOTH_TICKS = 0

\* a second frame with a factor strictly between 0 and 1 moved the value
\* part of the way
C15_Witness ==
    /\ smooth.steps >= 2
    /\ 0 < smooth.t
    /\ smooth.t < SMOOTH_TICKS
    /\ smooth.cur # smooth.prev
    /\ smooth.cur # smooth.tgt

(***************************************************************************)
(* Properties of the texture hooks (checked under SpecTexture)             *)
(***************************************************************************)
\* C16: a load that completes after its hook's component has unmounted
\* makes no setTexture call, in every order of resolves and the unmount.
C16_NoSetTextureAfterUnmount ==
    tex.lateSets = 0

\* two loads resolved after the unmount, one of them started before a change
\* of the URL
C16_Witness ==
    /\ ~tex.mounted
    /\ Len(tex.loads) >= 2
    /\ \A k \in 1..2 : tex.loads[k].status = "resolved" /\ tex.loads[k].late
    /\ tex.texture = 0

\* C17: the texture state is the placeholder from the mount on, is a loaded
\* texture only if that load succeeded, and a failed load raises no error
\* and starts no load (every load was started by an effect run).
C17_FailedLoadKeepsPlaceholder ==
    /\ tex.errors = 0
    /\ Len(tex.loads) = tex.effects
    /\ tex.texture # 0 =>
          /\ tex.texture \in 1..Len(tex.loads)
          /\ tex.loads[tex.texture].status = "resolved"
    /\ (\A k \in 1..Len(tex.loads) : tex.loads[k].status # "resolved") => tex.texture = 0

\* a mounted hook whose only load has failed
C17_Witness ==
    /\ tex.mounted
    /\ Len(tex.loads) = 1
    /\ tex.loads[1].status = "failed"
    /\ tex.texture = 0

(***************************************************************************)
(* Properties of the booster pull (checked under SpecPull)                 *)
(***************************************************************************)
\* C9: pullBoosterCards(pool) returns exactly 5 entries, each a member of
\* pool, for a non-empty pool, and the empty hand for the empty pool.
C9_PullYieldsFiveFromPool ==
    IF Len(pulled.pool) = 0
    THEN pulled.hand = <<>>
    ELSE /\ Len(pulled.hand) = 5
         /\ DOMAIN pulled.hand = 1..5
         /\ \A i \in 1..5 : \E j \in 1..Len(pulled.pool) : pulled.hand[i] = pulled.pool[j]

\* a pull from a pool of two cards that drew one of them more than once
C9_Witness ==
    /\ Len(pulled.pool) = 2
    /\ Len(pulled.hand) = 5
    /\ \E i, j \in 1..5 : i # j /\ pulled.hand[i] = pulled.hand[j]
    /\ \E i, j \in 1..5 : pulled.hand[i] # pulled.hand[j]

(***************************************************************************)
(* SpecInspect: the drag controller of InspectScene. Angles and velocities *)
(* are in micro-radians, pointer coordinates in 1/125 px (so that          *)
(* DRAG_SENSITIVITY is a whole number of micro-radians per unit), times in *)
(* sixths of a second (so that DRAG_DAMPING * delta is a whole number).    *)
(* Products that the code computes in floating point are truncated to the  *)
(* micro-radian.                                                           *)
(***************************************************************************)
MaxInspectTime == 20       \* the wall clock stops here (20/6 s > IDLE_TIMEOUT)
MaxInspectEvents == 3      \* pointer events and double clicks per run

DRAG_SENSITIVITY == 64      \* 0.008 rad/px = 64 micro-rad per 1/125 px
DRAG_DAMPING == 6           \* per second: 1 per sixth of a second
MAX_TILT_X == 1200000       \* 1.2 rad
IDLE_TIMEOUT == 18          \* 3000 ms
IDLE_SWAY_AMOUNT == 150     \* 0.15 rad, per thousandth of the sine
VELOCITY_EPSILON == 100     \* 0.0001 rad
PI_MICRO == 3141593         \* Math.PI

\* v * num / 100, truncated toward zero
scale(v, num) == IF v >= 0 THEN (v * num) \div 100 ELSE -(((-v) * num) \div 100)

\* Math.sin of an angle of x milli-radians, in thousandths (Bhaskara's
\* approximation on [0, pi], odd and periodic elsewhere)
sinHalfTurn(x) ==
    LET p == (x * (3142 - x)) \div 1000
    IN  (16000 * p) \div (49348 - 4 * p)

sinMilli(x) ==
    LET r == x % 6284
    IN  IF r <= 3142 THEN sinHalfTurn(r) ELSE -sinHalfTurn(r - 3142)

\* the idle sway at clock.elapsedTime = now: sin(t * 0.3) * 0.15 for the yaw,
\* sin(t * 0.3 * 0.7) * 0.15 * 0.5 for the pitch
swayYaw(now) == sinMilli(now * 50) * IDLE_SWAY_AMOUNT
swayPitch(now) == sinMilli(now * 35) * (IDLE_SWAY_AMOUNT \div 2)

\* handlePointerDown of InspectScene
inspectPointerDown(d, x, y, now) ==
    [d EXCEPT !.isDragging = TRUE, !.prevX = x, !.prevY = y,
              !.velocityX = 0, !.velocityY = 0, !.lastInteraction = now]

\* handlePointerMove of InspectScene: nothing unless a drag is active
inspectPointerMove(d, x, y, now) ==
    IF ~d.isDragging THEN d
    ELSE LET dx == x - d.prevX
             dy == y - d.prevY
         IN  [d EXCEPT !.velocityX = dx * DRAG_SENSITIVITY,
                       !.velocityY = dy * DRAG_SENSITIVITY,
                       !.targetRotY = @ + dx * DRAG_SENSITIVITY,
                       !.targetRotX = clamp(@ + dy * DRAG_SENSITIVITY, -MAX_TILT_X, MAX_TILT_X),
                       !.prevX = x, !.prevY = y, !.lastInteraction = now]

\* handlePointerUp of InspectScene
inspectPointerUpStops(d) == [d EXCEPT !.isDragging = FALSE, !.velocityX = 0, !.velocityY = 0]
inspectPointerUp(d) == [d EXCEPT !.isDragging = FALSE]

\* one frame of velocity decay: times 0.92, then snapped to 0 below the epsilon
decayNoSnap(v) == scale(v, 92)
decay(v) ==
    LET w == scale(v, 92)
    IN  IF Abs(w) < VELOCITY_EPSILON THEN 0 ELSE w

\* the frame callback takes its idle branch
inspectSwaysAtTimeout(d, now) ==
    /\ ~d.isDragging
    /\ now - d.lastInteraction >= IDLE_TIMEOUT
    /\ decay(d.velocityX) = 0
    /\ decay(d.velocityY) = 0
inspectSways(d, now) ==
    /\ ~d.isDragging
    /\ now - d.lastInteraction > IDLE_TIMEOUT
    /\ decay(d.velocityX) = 0
    /\ decay(d.velocityY) = 0

\* the part of the frame callback under "if (!d.isDragging)"
inertia(d, now) ==
    LET moved == [d EXCEPT !.targetRotY = @ + scale(d.velocityX, 95),
                           !.targetRotX = @ + scale(d.velocityY, 95),
                           !.velocityX = decay(@),
                           !.velocityY = decay(@)]
    IN  IF inspectSways(d, now)
        THEN [moved EXCEPT !.targetRotY = swayYaw(now), !.targetRotX = swayPitch(now)]
        ELSE moved

\* the clamp of the target pitch that ends the target update of every frame
frameClampSkipped(d) == d
frameClamp(d) == [d EXCEPT !.targetRotX = clamp(@, -MAX_TILT_X, MAX_TILT_X)]

\* the useFrame callback of InspectScene at wall clock now, delta sixths of a
\* second after the previous frame
inspectFrame(d, now, delta) ==
    LET t == frameClamp(IF d.isDragging THEN d ELSE inertia(d, now))
        speed == (DRAG_DAMPING * delta * SMOOTH_TICKS) \div 6    \* in 1/16
    IN  [t EXCEPT !.rotX = lerp(@, t.targetRotX, speed),
                  !.rotY = lerp(@, t.targetRotY, speed),
                  !.flipY = lerp(@, t.targetFlipY, speed)]

\* the render of InspectScene: targetFlipY follows the flipped prop
inspectRender(d, f) == [d EXCEPT !.targetFlipY = IF f THEN PI_MICRO ELSE 0]

\* pointer positions: at rest, 0.016 px away, 200 px away
InspectPoints == {<<0, 0>>, <<2, 2>>, <<25000, 25000>>}

InspectInit ==
    /\ StoreInit /\ CamIdle /\ PackIdle /\ PullIdle
    /\ click = NoClick /\ smooth = SmoothIdle /\ tex = TexIdle
    /\ flipped = FALSE
    /\ ins = InsIdle
    /\ insObs = InsObsIdle
    /\ entry = NoEntry /\ hover = HoverIdle(FALSE) /\ layout = NoLayout

InspectRest == <<storeVars, camVars, packVars, pulled, click, smooth, tex, entry, hover, layout>>

InspectPointerDown ==
    /\ insObs.events < MaxInspectEvents
    /\ \E pt \in InspectPoints : ins' = inspectPointerDown(ins, pt[1], pt[2], insObs.now)
    /\ insObs' = [insObs EXCEPT !.last = "down", !.events = @ + 1, !.sinceRelease = -1,
                                !.heldFrame = FALSE]
    /\ UNCHANGED <<flipped, InspectRest>>

InspectPointerMove ==
    /\ insObs.events < MaxInspectEvents
    /\ \E pt \in InspectPoints : ins' = inspectPointerMove(ins, pt[1], pt[2], insObs.now)
    /\ insObs' = [insObs EXCEPT !.last = "move", !.events = @ + 1]
    /\ UNCHANGED <<flipped, InspectRest>>

InspectPointerUp ==
    /\ insObs.events < MaxInspectEvents
    /\ ins' = inspectPointerUp(ins)
    /\ insObs' = [insObs EXCEPT !.last = "up", !.events = @ + 1,
                                !.sinceRelease = IF ins.isDragging THEN 0 ELSE @,
                                !.releaseVX = IF ins.isDragging THEN ins.velocityX ELSE @,
                                !.releaseVY = IF ins.isDragging THEN ins.velocityY ELSE @]
    /\ UNCHANGED <<flipped, InspectRest>>

\* a double click on the card: handleFlip of App, and the render that follows
InspectDoubleClick ==
    /\ insObs.events < MaxInspectEvents
    /\ flipped' = ~flipped
    /\ ins' = inspectRender(ins, ~flipped)
    /\ insObs' = [insObs EXCEPT !.last = "flip", !.events = @ + 1]
    /\ UNCHANGED InspectRest

InspectFrame ==
    /\ insObs.now < MaxInspectTime
    /\ LET now == insObs.now + 1
       IN  /\ ins' = inspectFrame(ins, now, 1)
           /\ insObs' = [insObs EXCEPT
                           !.now = now, !.last = "frame",
                           !.swayed = inspectSways(ins, now),
                           !.idleTime = now - ins.lastInteraction,
                           !.heldFrame = @ \/ ins.isDragging,
                           !.sinceRelease = IF @ >= 0 THEN @ + 1 ELSE @]
    /\ UNCHANGED <<flipped, InspectRest>>

InspectNext ==
    \/ InspectPointerDown
    \/ InspectPointerMove
    \/ InspectPointerUp
    \/ InspectDoubleClick
    \/ InspectFrame

SpecInspect == InspectInit /\ [][InspectNext]_vars

(***************************************************************************)
(* Properties of the inspect controller (checked under SpecInspect)        *)
(***************************************************************************)
\* C21: the target pitch stays within [-MAX_TILT_X, MAX_TILT_X] in every
\* state reached by pointer-down / move / up events and frames (drag, inertia
\* and idle sway included), while the target yaw is never clamped: a drag
\* move adds the whole scaled delta to it and an inertia frame the whole
\* velocity step, however far the yaw already is.
C21_PitchClampedYawFree ==
    /\ Abs(ins.targetRotX) <= MAX_TILT_X
    /\ [][/\ Abs(ins'.targetRotX) <= MAX_TILT_X
          /\ (InspectPointerMove /\ ins.isDragging) =>
                ins'.targetRotY = ins.targetRotY + (ins'.prevX - ins.prevX) * DRAG_SENSITIVITY
          /\ (InspectFrame /\ ~ins.isDragging /\ ~insObs'.swayed) =>
                ins'.targetRotY = ins.targetRotY + scale(ins.velocityX, 95)
          /\ (InspectFrame /\ ins.isDragging) => ins'.targetRotY = ins.targetRotY]_vars

\* after a release with a pitch velocity, an inertia frame has left the pitch
\* at its upper limit and carried the yaw beyond 1.2 rad
C21_Witness ==
    /\ insObs.last = "frame"
    /\ insObs.sinceRelease >= 1
    /\ insObs.releaseVY > 0
    /\ ins.targetRotX = MAX_TILT_X
    /\ ins.targetRotY > MAX_TILT_X

\* C22: inertia terminates. On every frame without a drag each velocity
\* shrinks to at most 0.92 of its magnitude and is either exactly 0 or at
\* least the epsilon 0.0001, so after finitely many frames without pointer
\* events both are exactly 0; they then stay 0, and inertia changes the
\* target yaw and pitch no more (only the idle sway still can).
C22_InertiaTerminates ==
    [][(InspectFrame /\ ~ins.isDragging) =>
          /\ 100 * Abs(ins'.velocityX) <= 92 * Abs(ins.velocityX)
          /\ 100 * Abs(ins'.velocityY) <= 92 * Abs(ins.velocityY)
          /\ ins'.velocityX = 0 \/ Abs(ins'.velocityX) >= VELOCITY_EPSILON
          /\ ins'.velocityY = 0 \/ Abs(ins'.velocityY) >= VELOCITY_EPSILON
          /\ (ins.velocityX = 0 /\ ins.velocityY = 0 /\ ~insObs'.swayed) =>
                /\ ins'.targetRotY = ins.targetRotY
                /\ ins'.targetRotX = ins.targetRotX]_vars

\* a drag released with a velocity in both axes, whose velocity the frames
\* since have brought to exactly 0 after moving the targets, and one more
\* frame has passed at rest
C22_Witness ==
    /\ insObs.last = "frame"
    /\ insObs.sinceRelease >= 5
    /\ insObs.releaseVX # 0 /\ insObs.releaseVY # 0
    /\ ins.velocityX = 0 /\ ins.velocityY = 0
    /\ ~ins.isDragging
    /\ ins.targetRotY > 128

\* C23: inertia runs only while no drag is active. A frame with the drag flag
\* set neither advances the targets by the velocity nor decays the
\* velocities; pointer-up only clears the drag flag, so the velocity the last
\* pointer-move left is what the very next frame applies (and decays).
C23_InertiaOnlyWhenReleased ==
    [][/\ (InspectFrame /\ ins.isDragging) =>
             /\ ins'.targetRotY = ins.targetRotY /\ ins'.targetRotX = ins.targetRotX
             /\ ins'.velocityX = ins.velocityX /\ ins'.velocityY = ins.velocityY
       /\ InspectPointerUp => ins' = [ins EXCEPT !.isDragging = FALSE]
       /\ (InspectFrame /\ ~ins.isDragging /\ insObs.sinceRelease = 0) =>
             /\ ins.velocityX = insObs.releaseVX /\ ins.velocityY = insObs.releaseVY
             /\ ins'.velocityX = decay(insObs.releaseVX)
             /\ ins'.velocityY = decay(insObs.releaseVY)
             /\ ~insObs'.swayed =>
                   ins'.targetRotY = ins.targetRotY + scale(insObs.releaseVX, 95)]_vars

\* a drag that saw a frame while the pointer was held, was released with a
\* velocity, and whose first frame after the release applied that velocity
C23_Witness ==
    /\ insObs.last = "frame"
    /\ insObs.heldFrame
    /\ insObs.sinceRelease = 1
    /\ insObs.releaseVX = 128
    /\ ins.velocityX = 117
    /\ ins.targetRotY = 128 + 121

\* the two conditions of the idle sway on the frame that is being taken: the
\* time since the last interaction exceeds IDLE_TIMEOUT and both velocities,
\* as this frame leaves them, are exactly zero
IdleAndAtRest ==
    /\ insObs'.now - ins.lastInteraction > IDLE_TIMEOUT
    /\ ins'.velocityX = 0 /\ ins'.velocityY = 0

\* this frame left the targets at the values of the sway function
TargetsOverridden ==
    /\ ins'.targetRotY = swayYaw(insObs'.now)
    /\ ins'.targetRotX = swayPitch(insObs'.now)

\* this frame left the targets where the drag or the inertia put them
TargetsNotOverridden ==
    IF ins.isDragging
    THEN ins'.targetRotY = ins.targetRotY /\ ins'.targetRotX = ins.targetRotX
    ELSE /\ ins'.targetRotY = ins.targetRotY + scale(ins.velocityX, 95)
         /\ ins'.targetRotX =
               clamp(ins.targetRotX + scale(ins.velocityY, 95), -MAX_TILT_X, MAX_TILT_X)

\* C24 as stated: the idle sway is applied on a frame exactly when the time
\* since the last interaction exceeds 3000 ms and both velocities are exactly
\* zero: on every such frame the targets are overridden by the sway function,
\* on every other frame they are not.
C24_SwayExactlyWhenIdleAndAtRest ==
    [][InspectFrame =>
          IF IdleAndAtRest THEN TargetsOverridden ELSE TargetsNotOverridden]_vars

\* C24 amended: the idle sway is applied on a frame exactly when no drag is
\* active, the time since the last interaction exceeds 3000 ms and both
\* velocities are exactly zero; a pointer held still for longer than the
\* timeout gets no sway until it is released.
C24_SwayExactlyWhenReleasedIdleAndAtRest ==
    [][InspectFrame =>
          IF ~ins.isDragging /\ IdleAndAtRest
          THEN TargetsOverridden ELSE TargetsNotOverridden]_vars

\* a frame more than 3000 ms after the last interaction has put the targets
\* on the sway curve, away from where the drag had left them
C24_Witness ==
    /\ insObs.last = "frame"
    /\ insObs.swayed
    /\ insObs.idleTime > IDLE_TIMEOUT
    /\ insObs.releaseVX # 0
    /\ ins.targetRotY = swayYaw(insObs.now) /\ ins.targetRotY # 0
    /\ ins.targetRotX = swayPitch(insObs.now) /\ ins.targetRotX # 0

(***************************************************************************)
(* SpecEntry: the entrance of the booster cards. BoosterScene mounts one   *)
(* BoosterCard per card of the hand when the phase becomes 'revealing';    *)
(* each starts a timer of index * 120 ms that sets anim.entered, and each  *)
(* frame moves the card. Times are in half milliseconds (a frame lasts a   *)
(* whole number of 1/16 s = 125 units), lengths and angles in thousandths. *)
(* The browser runs due timers of one document in the order of their       *)
(* delays, at or after the time they are due.                              *)
(***************************************************************************)
MaxEntryCards == 3         \* cards of the hand that are followed
MaxEntryTime == 500        \* 250 ms: the timers of cards 0..2 are due by then

ENTRANCE_DELAY == 240      \* index * 120 ms
FRAME_UNIT == 125          \* 1/16 s
FLIP_SPEED == 8
CARD_SPACING == 2800
PI_MILLI == 3142           \* Math.PI

\* anim = useRef({...}) of BoosterCard, with the revealed prop of its render
EntryCard == [x |-> 0, y |-> 0, rotY |-> PI_MILLI, targetRotY |-> PI_MILLI,
              scale |-> 500, entered |-> FALSE, revealed |-> FALSE]

\* targetX of card i (0-based) in a hand of n cards
targetXOf(i, n) == ((2 * i - (n - 1)) * CARD_SPACING) \div 2

\* the render of BoosterCard: targetRotY follows the revealed prop
entryRender(a, revealed) ==
    [a EXCEPT !.revealed = revealed, !.targetRotY = IF revealed THEN 0 ELSE PI_MILLI]

\* the useFrame callback of BoosterCard, delta in 1/16 s
entryFrame(a, targetX, delta) ==
    LET speed == FLIP_SPEED * delta
        targetScale == IF a.revealed THEN 1050 ELSE 1000
        moved == IF a.entered
                 THEN [a EXCEPT !.x = lerp(@, targetX, speed),
                                !.y = lerp(@, 0, speed),
                                !.scale = lerp(@, targetScale, speed)]
                 ELSE a
    IN  [moved EXCEPT !.rotY = lerp(@, a.targetRotY, speed)]

EntryInit ==
    /\ StoreInit /\ CamIdle /\ PackIdle /\ PullIdle
    /\ click = NoClick /\ smooth = SmoothIdle /\ tex = TexIdle
    /\ flipped = FALSE /\ ins = InsIdle /\ insObs = InsObsIdle
    /\ hover = HoverIdle(FALSE) /\ layout = NoLayout
    /\ \E n \in 1..MaxEntryCards :
          entry = [t |-> 0, cards |-> [i \in 1..n |-> EntryCard]]

EntryRest == <<storeVars, camVars, packVars, pulled, click, smooth, tex,
               flipped, ins, insObs, hover, layout>>

\* the timer of card i (1-based here, index i - 1 in the code) fires
EntryTimer(i) ==
    /\ ~entry.cards[i].entered
    /\ entry.t >= (i - 1) * ENTRANCE_DELAY
    /\ \A j \in 1..(i - 1) : entry.cards[j].entered
    /\ entry' = [entry EXCEPT !.cards[i].entered = TRUE]
    /\ UNCHANGED EntryRest

\* a click on card i (handleClick) or "Tout reveler" reveals it, and the
\* card renders with revealed = true
EntryReveal(i) ==
    /\ ~entry.cards[i].revealed
    /\ entry' = [entry EXCEPT !.cards[i] = entryRender(@, TRUE)]
    /\ UNCHANGED EntryRest

\* one frame, delta sixteenths of a second after the previous one
EntryFrame ==
    /\ \E delta \in 1..2 :
          /\ entry.t + delta * FRAME_UNIT <= MaxEntryTime
          /\ entry' = [t |-> entry.t + delta * FRAME_UNIT,
                       cards |-> [i \in DOMAIN entry.cards |->
                                    entryFrame(entry.cards[i],
                                               targetXOf(i - 1, Len(entry.cards)), delta)]]
    /\ UNCHANGED EntryRest

EntryNext ==
    \/ \E i \in 1..MaxEntryCards : i <= Len(entry.cards) /\ EntryTimer(i)
    \/ \E i \in 1..MaxEntryCards : i <= Len(entry.cards) /\ EntryReveal(i)
    \/ EntryFrame

SpecEntry == EntryInit /\ [][EntryNext]_vars

\* C25: a booster card holds its initial pose until its entrance delay has
\* elapsed: before the timer of card i fires, every frame leaves its position
\* (0, 0), its scale 0.5 and its face-down rotation pi unchanged, whatever the
\* revealed set contains; and card i enters no later than card j for i < j.
C25_HoldsPoseUntilEntered ==
    /\ [](\A i \in DOMAIN entry.cards :
            /\ ~entry.cards[i].entered =>
                  /\ entry.cards[i].x = 0 /\ entry.cards[i].y = 0
                  /\ entry.cards[i].scale = 500
                  /\ entry.cards[i].rotY = PI_MILLI
            /\ \A j \in DOMAIN entry.cards :
                  (i < j /\ entry.cards[j].entered) => entry.cards[i].entered)

\* the part of C25 that the code keeps: position and scale are held until the
\* timer fires, and the cards enter in the order of their indices
EntryHoldsPositionAndScale ==
    \A i \in DOMAIN entry.cards :
        /\ ~entry.cards[i].entered =>
              /\ entry.cards[i].x = 0 /\ entry.cards[i].y = 0
              /\ entry.cards[i].scale = 500
        /\ \A j \in DOMAIN entry.cards :
              (i < j /\ entry.cards[j].entered) => entry.cards[i].entered

(***************************************************************************)
(* SpecHover: the hover handlers and the frame callback of one CardMesh.   *)
(* Tilts are in micro-radians, lengths in thousandths, normalised          *)
(* coordinates in thousandths, frame times in 1/16 s.                      *)
(***************************************************************************)
MaxHoverEvents == 4        \* pointer events per run
MaxHoverFrames == 2        \* frames per run

MAX_TILT == 210000         \* 0.21 rad
HOVER_LIFT == 250          \* 0.25

\* handlePointerMove of CardMesh for the intersection point (x, y) in the
\* card's local space
handlePointerMove(a, x, y) ==
    IF a.inspectMode THEN a
    ELSE LET nx == clamp((x * 1000) \div 1250, -1000, 1000)
             ny == clamp((y * 1000) \div 1750, -1000, 1000)
         IN  [a EXCEPT !.targetTiltX = (-ny) * (MAX_TILT \div 1000),
                       !.targetTiltY = nx * (MAX_TILT \div 1000)]

\* handlePointerEnter of CardMesh
handlePointerEnter(a) ==
    IF a.inspectMode THEN a
    ELSE [a EXCEPT !.hovered = TRUE, !.targetLiftY = HOVER_LIFT]

\* handlePointerLeave of CardMesh
handlePointerLeaveKeepsTilt(a) ==
    IF a.inspectMode THEN a
    ELSE [a EXCEPT !.hovered = FALSE, !.targetLiftY = 0]
handlePointerLeave(a) ==
    IF a.inspectMode THEN a
    ELSE [a EXCEPT !.hovered = FALSE, !.targetTiltX = 0, !.targetTiltY = 0,
                   !.targetLiftY = 0]

\* the useFrame callback of CardMesh, delta in 1/16 s
hoverFrame(a, delta) ==
    [a EXCEPT !.tiltX = smoothStep(@, a.targetTiltX, SMOOTH_SPEED, delta),
              !.tiltY = smoothStep(@, a.targetTiltY, SMOOTH_SPEED, delta),
              !.liftY = smoothStep(@, a.targetLiftY, SMOOTH_SPEED, delta)]

\* intersection points: the centre, inside the card, on its border, and
\* beyond the face (on the bevel)
HoverXs == {-2500, -1250, 0, 625, 1250, 2500}
HoverYs == {-3500, -1750, 0, 875, 1750, 3500}

HoverInit ==
    /\ StoreInit /\ CamIdle /\ PackIdle /\ PullIdle
    /\ click = NoClick /\ smooth = SmoothIdle /\ tex = TexIdle
    /\ flipped = FALSE /\ ins = InsIdle /\ insObs = InsObsIdle
    /\ entry = NoEntry /\ layout = NoLayout
    /\ \E m \in BOOLEAN : hover = HoverIdle(m)

HoverRest == <<storeVars, camVars, packVars, pulled, click, smooth, tex,
               flipped, ins, insObs, entry, layout>>

HoverEnter ==
    /\ hover.events < MaxHoverEvents
    /\ hover' = [handlePointerEnter(hover) EXCEPT !.last = "enter", !.events = @ + 1]
    /\ UNCHANGED HoverRest

HoverMove ==
    /\ hover.events < MaxHoverEvents
    /\ \E x \in HoverXs, y \in HoverYs :
          hover' = [handlePointerMove(hover, x, y) EXCEPT !.last = "move", !.events = @ + 1]
    /\ UNCHANGED HoverRest

HoverLeave ==
    /\ hover.events < MaxHoverEvents
    /\ hover' = [handlePointerLeave(hover) EXCEPT !.last = "leave", !.events = @ + 1]
    /\ UNCHANGED HoverRest

HoverFrame ==
    /\ hover.frames < MaxHoverFrames
    /\ \E delta \in 1..2 :
          hover' = [hoverFrame(hover, delta) EXCEPT !.frames = @ + 1]
    /\ UNCHANGED HoverRest

HoverNext ==
    \/ HoverEnter
    \/ HoverMove
    \/ HoverLeave
    \/ HoverFrame

SpecHover == HoverInit /\ [][HoverNext]_vars

\* C26: after any sequence of pointer-enter / move / leave on a gallery card
\* the lift target is HOVER_LIFT exactly while the card is hovered and 0
\* otherwise, after a pointer-leave both tilt targets are 0, and each tilt
\* target lies within [-MAX_TILT, MAX_TILT].
C26_HoverTargets ==
    /\ hover.targetLiftY = (IF hover.hovered THEN HOVER_LIFT ELSE 0)
    /\ hover.last = "leave" => (hover.targetTiltX = 0 /\ hover.targetTiltY = 0)
    /\ Abs(hover.targetTiltX) <= MAX_TILT
    /\ Abs(hover.targetTiltY) <= MAX_TILT

\* a gallery card hovered again after a leave, with the pointer beyond the
\* face in both axes: both tilt targets are at their limits
C26_Witness ==
    /\ ~hover.inspectMode
    /\ hover.hovered
    /\ hover.events = 4
    /\ hover.last = "move"
    /\ hover.targetLiftY = HOVER_LIFT
    /\ hover.targetTiltY = MAX_TILT
    /\ hover.targetTiltX = -MAX_TILT

(***************************************************************************)
(* Properties of the store's reveal phases (checked under Spec)            *)
(***************************************************************************)
\* C27: while the booster phase is 'revealing' or 'summary', boosterState is
\* 'summary' if and only if every slot index of the hand is in
\* revealedIndices (the size of the revealed set equals the hand size), in
\* every reachable state, an empty hand included.
C27_SummaryIffAllRevealed ==
    boosterState \in {"revealing", "summary"} =>
        (boosterState = "summary" <=>
            /\ \A i \in 0..(Len(boosterCards) - 1) : i \in revealedIndices
            /\ Cardinality(revealedIndices) = Len(boosterCards))

(***************************************************************************)
(* Properties of the scene's calls into the store (checked under SpecPack) *)
(***************************************************************************)
\* C28: under any interleaving of pointer events, frames and store-driven
\* re-renders the scene invokes tearOpen only while the store's phase is
\* 'pack' and finishOpening only while it is 'opening': a pointer-down in any
\* other phase never arms the tear gesture, and the pack and its timer exist
\* only in the phases pack and opening.
C28_SceneCallsInPhase ==
    /\ [](packMounted => boosterState \in {"pack", "opening"})
    /\ [][/\ (PackPointerMove /\ gesture'.tearCalls > gesture.tearCalls) =>
                boosterState = "pack"
          /\ (PackFrame /\ finishCalls' > finishCalls) => boosterState = "opening"
          /\ (PackPointerDown /\ boosterState # "pack") => ~drag'.active]_vars

\* the part of C28 about finishOpening alone
FinishOnlyWhileOpening ==
    [][(PackFrame /\ finishCalls' > finishCalls) => boosterState = "opening"]_vars

\* the part of C28 about tearOpen alone
TearOnlyWhilePack ==
    [][(PackPointerMove /\ gesture'.tearCalls > gesture.tearCalls) =>
          boosterState = "pack"]_vars

\* the part of C28 about arming alone
ArmOnlyWhilePack ==
    [][(PackPointerDown /\ boosterState # "pack") => ~drag'.active]_vars

\* what the stale props still guarantee: the calls are made while the scene
\* was last rendered in the phase of the call
CallsInRenderedPhase ==
    [][/\ (PackPointerMove /\ gesture'.tearCalls > gesture.tearCalls) =>
             gesture.armed
       /\ (PackFrame /\ finishCalls' > finishCalls) => rendered.boosterState = "opening"
       /\ PackPointerDown => (drag'.active <=> rendered.boosterState = "pack")]_vars

\* C29: in every state reachable through the application's actions (select
\* card, back, flip, open booster, tear, reveal, close booster)
\* selectedCardId is non-null exactly when viewMode is 'inspect': no card is
\* selected in gallery or booster mode.
C29_SelectedIffInspect ==
    (selectedCardId # NULL) <=> (viewMode = "inspect")

\* a card is selected and flipped in inspect mode after a booster session
\* has been opened and closed
C29_Witness ==
    /\ viewMode = "inspect"
    /\ selectedCardId \in CardIds
    /\ flipped
    /\ Len(pulled.hand) = PULL_COUNT
    /\ boosterCards = <<>>

(***************************************************************************)
(* SpecLayout: the two computations of the gallery's height for one list   *)
(* of cards, App.galleryContentHeight and the totalHeight of               *)
(* GalleryScene's layout. A card is represented by its rarity; rows are    *)
(* counted in 1/1000 of a row and heights are in 1/1000 scene units, so    *)
(* that SEPARATOR_HEIGHT / SPACING_Y = 0.105 and LABEL_ROW = 0.25 are      *)
(* whole numbers and the sums are exact.                                   *)
(***************************************************************************)
MaxLayoutCards == 7        \* longest card list
MaxRarities == 2           \* distinct rarities in a list

COLUMNS == 4
SPACING_Y == 4
SEPARATOR_ROWS == 105      \* SEPARATOR_HEIGHT / SPACING_Y = 0.42 / 4.0
LABEL_ROW == 250           \* 0.25

\* Math.ceil(n / COLUMNS)
ceilRows(n) == (n + COLUMNS - 1) \div COLUMNS

\* App, first loop: the number of runs of equal rarity
RECURSIVE countGroups(_, _, _, _)
countGroups(list, i, prevRarity, groups) ==
    IF i > Len(list) THEN groups
    ELSE IF list[i] # prevRarity
         THEN countGroups(list, i + 1, list[i], groups + 1)
         ELSE countGroups(list, i + 1, prevRarity, groups)

\* App, second loop: the card rows of the runs that are complete, and the
\* size of the run in progress
RECURSIVE countRows(_, _, _, _, _)
countRows(list, i, prevRarity, groupCount, totalRows) ==
    IF i > Len(list)
    THEN IF prevRarity # NULL THEN totalRows + ceilRows(groupCount) ELSE totalRows
    ELSE IF list[i] # prevRarity
         THEN countRows(list, i + 1, list[i], 1,
                        IF prevRarity # NULL THEN totalRows + ceilRows(groupCount)
                                             ELSE totalRows)
         ELSE countRows(list, i + 1, prevRarity, groupCount + 1, totalRows)

\* App.galleryContentHeight for the list filteredCards
galleryContentHeight(list) ==
    contentHeightOf(countGroups(list, 1, NULL, 0), countRows(list, 1, NULL, 0, 0))

\* GalleryScene, first loop: the groups of consecutive cards of one rarity
RECURSIVE groupByRarity(_, _, _, _)
groupByRarity(list, i, currentRarity, groups) ==
    IF i > Len(list) THEN groups
    ELSE IF list[i] # currentRarity
         THEN groupByRarity(list, i + 1, list[i],
                            Append(groups, [rarity |-> list[i], count |-> 1]))
         ELSE groupByRarity(list, i + 1, currentRarity,
                            [groups EXCEPT ![Len(groups)].count = @ + 1])

\* the rows a group's separator adds above its label: none for the first
\* group (g is 1-based here, g > 0 in the code)
separatorRowsAlways(g) == SEPARATOR_ROWS
separatorRows(g) == IF g > 1 THEN SEPARATOR_ROWS ELSE 0

\* GalleryScene, second loop: currentRow after the groups g.. have been laid
\* out below currentRow
RECURSIVE layoutRows(_, _, _)
layoutRows(groups, g, currentRow) ==
    IF g > Len(groups) THEN currentRow
    ELSE LET labelled == currentRow + separatorRows(g) + LABEL_ROW
             groupRows == ceilRows(groups[g].count)
         IN  layoutRows(groups, g + 1, labelled + groupRows * 1000)

\* totalHeight of GalleryScene's items for the list cards
totalHeight(list) == layoutRows(groupByRarity(list, 1, NULL, <<>>), 1, 0) * SPACING_Y

Rarities == 1..MaxRarities
CardLists == UNION {[1..n -> Rarities] : n \in 0..MaxLayoutCards}

\* a list of cards reaches App and GalleryScene; nothing is computed yet
LayoutInit ==
    /\ StoreInit /\ CamIdle /\ PackIdle /\ PullIdle
    /\ click = NoClick /\ smooth = SmoothIdle /\ tex = TexIdle
    /\ flipped = FALSE /\ ins = InsIdle /\ insObs = InsObsIdle
    /\ entry = NoEntry /\ hover = HoverIdle(FALSE)
    /\ \E list \in CardLists :
          layout = [cards |-> list, computed |-> FALSE,
                    galleryContentHeight |-> 0, totalHeight |-> 0]

\* the render that runs both useMemo computations for the list
LayoutRender ==
    /\ ~layout.computed
    /\ layout' = [layout EXCEPT !.computed = TRUE,
                                !.galleryContentHeight = galleryContentHeight(layout.cards),
                                !.totalHeight = totalHeight(layout.cards)]
    /\ UNCHANGED <<storeVars, camVars, packVars, pulled, click, smooth, tex,
                   flipped, ins, insObs, entry, hover>>

LayoutNext == LayoutRender

SpecLayout == LayoutInit /\ [][LayoutNext]_vars

====
